---- MODULE Spec2Model ----
(***************************************************************************)
(* Gmail conversational agent: the Django REST backend (src/Main.py) and   *)
(* the Streamlit chat client (src/Streamlit_app.py).                       *)
(*                                                                         *)
(* Python text on which the code runs string operations (lower, strip,     *)
(* split, slicing, int, date parsing) is a sequence of one-character       *)
(* strings over the Latin-1 characters.  Values                            *)
(* that the code only stores, compares or passes on (message ids, label    *)
(* ids, exception descriptions) are atoms, written as TLA+ strings.        *)
(* A dict is a function whose DOMAIN is its set of keys.  A Python int     *)
(* read from text by int() is kept as its decimal numeral.                 *)
(*                                                                         *)
(* BackendSpec: the requests of the handlers that make one delegate call.  *)
(* LabelsSpec: organize_labels requests served at the same time, one step  *)
(* per delegate call.  ChatSpec: a chat session, one step per UI event and *)
(* per stage of the script run that handles a chat input.  ClassifySpec:   *)
(* the first chat input of a session, over every utterance.                *)
(***************************************************************************)
EXTENDS Integers, Sequences, FiniteSets, Bags, TLC

VARIABLES
    \* ---- mail provider and backend settings (src/Main.py) ----
    labels,         \* the mailbox's labels: a list of [name, id], oldest first
    msg_labels,     \* message id -> set of label ids on that message
    settings,       \* django settings: attribute name -> value
    handler,        \* the backend handler that served the last request
    request,        \* the payload of the last request
    outcomes,       \* what each delegate did when called in the last request
    calls,          \* the delegate calls of the last request, in order
    response,       \* the last response, or the exception that escaped
    changed,        \* what the delegate calls of the last request changed
    inflight,       \* the organize_labels requests waiting for the provider
    \* ---- chat client session state (src/Streamlit_app.py) ----
    chats,          \* st.session_state["chats"]: thread name -> history
    current_chat,   \* st.session_state["current_chat"]
    event,          \* the UI event the last script run was started by
    prompt_in,      \* the prompt of the last chat input
    api_calls,      \* the backend calls of that script run, in order
    crashed,        \* TRUE when that script run ended by an exception
    run             \* where the script run handling a chat input stands

backend_vars == <<labels, msg_labels, settings, handler, request, outcomes,
                  calls, response, changed, inflight>>
chat_vars == <<chats, current_chat, event, prompt_in, api_calls, crashed, run>>
vars == <<backend_vars, chat_vars>>

----------------------------------------------------------------------------
(* Bounds of the model *)
MaxFrags == 3       \* fragments concatenated into one classified utterance
MaxListed == 2      \* messages returned by one list_messages call
MaxThreads == 2     \* chat threads in one session
MaxPrompts == 2     \* user messages in one session
MaxInFlight == 2    \* organize_labels requests served at the same time

----------------------------------------------------------------------------
(* Program constants *)
HTTP_200 == 200
HTTP_400 == 400
HTTP_500 == 500
BodyCap == 2000             \* list_view keeps the first 2000 characters of a body
DefaultListLimit == 10
DefaultSummaryLimit == 5
ChatListLimit == 3          \* list_emails(limit=3) in the chat handler
ChatSummaryLimit == 5       \* summarize_emails(limit=5) in the chat handler
InboxLimit == 5             \* list_emails(limit=5) for the sidebar's inbox
SubjectCap == 30            \* subject = body[:30]

----------------------------------------------------------------------------
(* Python values *)

\* None, where the value is an atom
None == "<None>"
\* None, where the value is text
NoneText == <<"<None>">>

\* bool(v) of an atom or None
Truthy(v) == v # None /\ v # ""
\* bool(v) of text or None
TruthyText(v) == v # NoneText /\ v # <<>>

\* d.get(k) with an atom value
Get(d, k) == IF k \in DOMAIN d THEN d[k] ELSE None
\* d.get(k) with a text value
GetText(d, k) == IF k \in DOMAIN d THEN d[k] ELSE NoneText

\* a or b
Or(a, b) == IF Truthy(a) THEN a ELSE b
OrText(a, b) == IF TruthyText(a) THEN a ELSE b

\* the element of a set of one: Only({F(v) : v \in {e}}) is F(e) with e
\* evaluated once
Only(S) == CHOOSE x \in S : TRUE

\* s[:n]
Take(s, n) == SubSeq(s, 1, IF Len(s) < n THEN Len(s) ELSE n)
\* s[n:]  (n is the 0-based start)
Drop(s, n) == SubSeq(s, n + 1, Len(s))

\* str.lower(), one character of the model's alphabet (Latin-1)
LowerTable ==
    ("A" :> "a") @@ ("B" :> "b") @@ ("C" :> "c") @@ ("D" :> "d") @@ ("E" :> "e") @@
    ("F" :> "f") @@ ("G" :> "g") @@ ("H" :> "h") @@ ("I" :> "i") @@ ("J" :> "j") @@
    ("K" :> "k") @@ ("L" :> "l") @@ ("M" :> "m") @@ ("N" :> "n") @@ ("O" :> "o") @@
    ("P" :> "p") @@ ("Q" :> "q") @@ ("R" :> "r") @@ ("S" :> "s") @@ ("T" :> "t") @@
    ("U" :> "u") @@ ("V" :> "v") @@ ("W" :> "w") @@ ("X" :> "x") @@ ("Y" :> "y") @@
    ("Z" :> "z") @@ ("À" :> "à") @@ ("Á" :> "á") @@ ("Â" :> "â") @@ ("Ã" :> "ã") @@
    ("Ä" :> "ä") @@ ("Å" :> "å") @@ ("Æ" :> "æ") @@ ("Ç" :> "ç") @@ ("È" :> "è") @@
    ("É" :> "é") @@ ("Ê" :> "ê") @@ ("Ë" :> "ë") @@ ("Ì" :> "ì") @@ ("Í" :> "í") @@
    ("Î" :> "î") @@ ("Ï" :> "ï") @@ ("Ð" :> "ð") @@ ("Ñ" :> "ñ") @@ ("Ò" :> "ò") @@
    ("Ó" :> "ó") @@ ("Ô" :> "ô") @@ ("Õ" :> "õ") @@ ("Ö" :> "ö") @@ ("Ø" :> "ø") @@
    ("Ù" :> "ù") @@ ("Ú" :> "ú") @@ ("Û" :> "û") @@ ("Ü" :> "ü") @@ ("Ý" :> "ý") @@
    ("Þ" :> "þ")
LowerChar(c) == IF c \in DOMAIN LowerTable THEN LowerTable[c] ELSE c
\* str.lower()
Lower(s) == [i \in 1..Len(s) |-> LowerChar(s[i])]

\* str.upper(), as the date parser applies it to the name of a time zone: the
\* capital of a letter, "SS" for U+00DF.  The capitals of U+00B5 and U+00FF are
\* U+039C and U+0178, which are not Latin-1 characters: each is written here
\* as the one-element text that holds the name of its code point
RECURSIVE Upper(_)
Upper(s) ==
    IF s = <<>> THEN <<>>
    ELSE (IF s[1] = "ß" THEN <<"S", "S">>
          ELSE IF s[1] = "µ" THEN <<"U+039C">>
          ELSE IF s[1] = "ÿ" THEN <<"U+0178">>
          ELSE IF \E c \in DOMAIN LowerTable : LowerTable[c] = s[1]
          THEN <<CHOOSE c \in DOMAIN LowerTable : LowerTable[c] = s[1]>>
          ELSE <<s[1]>>) \o Upper(Tail(s))

\* the characters c with c.isspace(): space, \t, \n, \r, \f, U+000B,
\* U+001C..U+001F, U+0085, U+00A0
Whitespace ==
    {" ", "\t", "\n", "\r", "\f", "", "", "", "", "", "", " "}
\* the whitespace int() skips around a number: not U+001C..U+001F
IntWhitespace == Whitespace \ {"", "", "", ""}

\* c.isspace(): str.strip() removes these, str.split() separates on them
IsSpace(c) == c \in Whitespace

RECURSIVE LStripOf(_, _)
LStripOf(s, W) == IF s # <<>> /\ s[1] \in W THEN LStripOf(Tail(s), W) ELSE s
RECURSIVE RStripOf(_, _)
RStripOf(s, W) ==
    IF s # <<>> /\ s[Len(s)] \in W THEN RStripOf(SubSeq(s, 1, Len(s) - 1), W) ELSE s

\* str.lstrip()
LStrip(s) == LStripOf(s, Whitespace)
\* str.rstrip()
RStrip(s) == RStripOf(s, Whitespace)
\* str.strip()
Strip(s) == RStrip(LStrip(s))

\* the 1-based index of the first occurrence of sub in s, 0 when there is none
Find(s, sub) ==
    LET hits == {i \in 1..(Len(s) - Len(sub) + 1) :
                    SubSeq(s, i, i + Len(sub) - 1) = sub}
    IN IF hits = {} THEN 0 ELSE CHOOSE i \in hits : \A j \in hits : i <= j

\* the 1-based index of the last occurrence of sub in s, 0 when there is none
RFind(s, sub) ==
    LET hits == {i \in 1..(Len(s) - Len(sub) + 1) :
                    SubSeq(s, i, i + Len(sub) - 1) = sub}
    IN IF hits = {} THEN 0 ELSE CHOOSE i \in hits : \A j \in hits : i >= j

\* sub in s
Contains(s, sub) == Find(s, sub) # 0

\* s.split(sep): the pieces between the non-overlapping occurrences of sep,
\* found left to right
RECURSIVE Split(_, _)
Split(s, sep) ==
    LET i == Find(s, sep)
    IN IF i = 0 THEN <<s>>
       ELSE <<SubSeq(s, 1, i - 1)>> \o Split(Drop(s, i - 1 + Len(sep)), sep)

\* s.split(): the runs of characters between whitespace
RECURSIVE SplitWords(_)
SplitWords(s) ==
    LET t == LStrip(s)
        gaps == {i \in 1..Len(t) : IsSpace(t[i])}
        n == IF gaps = {} THEN Len(t) + 1
             ELSE CHOOSE i \in gaps : \A j \in gaps : i <= j
    IN IF t = <<>> THEN <<>>
       ELSE <<SubSeq(t, 1, n - 1)>> \o SplitWords(Drop(t, n - 1))

\* the decimal digits int() reads
IsDigit(c) == c \in {"0", "1", "2", "3", "4", "5", "6", "7", "8", "9"}
\* c.isdigit(): the decimal digits and the superscripts U+00B2, U+00B3, U+00B9
IsStrDigit(c) == IsDigit(c) \/ c \in {"²", "³", "¹"}
DigitValue(c) ==
    CASE c = "0" -> 0 [] c = "1" -> 1 [] c = "2" -> 2 [] c = "3" -> 3
      [] c = "4" -> 4 [] c = "5" -> 5 [] c = "6" -> 6 [] c = "7" -> 7
      [] c = "8" -> 8 [] c = "9" -> 9

\* the most decimal digits int() converts (sys.int_max_str_digits of the
\* Python 3.11 interpreter); a longer numeral is a ValueError
MaxStrDigits == 4300

\* int(s) succeeds on digits, single underscores between digits allowed, after
\* an optional sign, with whitespace around them; the digits, leading zeros
\* counted and underscores not, are at most MaxStrDigits
Unsigned(t) == IF t # <<>> /\ t[1] \in {"-", "+"} THEN Tail(t) ELSE t
IsIntText(s) ==
    LET t == Unsigned(RStripOf(LStripOf(s, IntWhitespace), IntWhitespace))
    IN /\ t # <<>>
       /\ \A i \in 1..Len(t) : IsDigit(t[i]) \/ t[i] = "_"
       /\ IsDigit(t[1])
       /\ IsDigit(t[Len(t)])
       /\ \A i \in 1..(Len(t) - 1) : ~(t[i] = "_" /\ t[i + 1] = "_")
       /\ Len(SelectSeq(t, IsDigit)) <= MaxStrDigits

RECURSIVE DigitsValue(_)
DigitsValue(t) ==
    IF t = <<>> THEN 0
    ELSE 10 * DigitsValue(SubSeq(t, 1, Len(t) - 1)) + DigitValue(t[Len(t)])

\* the digits of t from its first non-zero digit on
Significant(t) ==
    LET nonzero == {i \in 1..Len(t) : t[i] # "0"}
    IN IF nonzero = {} THEN <<>>
       ELSE SubSeq(t, CHOOSE i \in nonzero : \A j \in nonzero : i <= j, Len(t))

\* int(s), where IsIntText(s).  A Python int has no bound: it is written as
\* its decimal numeral, the text of str(int(s))
IntOf(s) ==
    LET t == RStripOf(LStripOf(s, IntWhitespace), IntWhitespace)
        d == Significant(SelectSeq(t, IsDigit))
    IN IF d = <<>> THEN <<"0">>
       ELSE IF t[1] = "-" THEN <<"-">> \o d
       ELSE d

\* str(n) of a non-negative int
DigitChar(d) ==
    CASE d = 0 -> "0" [] d = 1 -> "1" [] d = 2 -> "2" [] d = 3 -> "3"
      [] d = 4 -> "4" [] d = 5 -> "5" [] d = 6 -> "6" [] d = 7 -> "7"
      [] d = 8 -> "8" [] d = 9 -> "9"
RECURSIVE IntText(_)
IntText(n) ==
    IF n < 10 THEN <<DigitChar(n)>> ELSE IntText(n \div 10) \o <<DigitChar(n % 10)>>

----------------------------------------------------------------------------
(* Backend: responses *)

SendFields == {"to", "subject", "body"}

\* rest_framework Response(body, status=...)
Response(body, status) == [kind |-> "response", status |-> status, body |-> body]
\* an exception that leaves the view function
Uncaught(exc) == [kind |-> "exception", status |-> HTTP_500, body |-> exc]

\* Response({"error": str(e)}, status=...)
ErrorResponse(text, status) == Response([error |-> text], status)

\* a delegate that returned v / that raised e
Returned(v) == [raised |-> FALSE, value |-> v]
Raised(e) == [raised |-> TRUE, value |-> e]

\* the delegate was not called in this request
NotCalled == [raised |-> FALSE, value |-> "<not called>"]

----------------------------------------------------------------------------
(* Backend: send_view *)

\* SendEmailSerializer(data=...).errors: one entry per required field that is
\* missing or empty; a payload that is no JSON object is rejected as a whole
SerializerErrors(data) ==
    IF ~data.isdict THEN [non_field_errors |-> <<"Invalid data. Expected a dictionary.">>]
    ELSE [f \in {g \in SendFields : g \notin DOMAIN data.fields \/ data.fields[g] = <<>>}
            |-> <<"This field is required or may not be blank.">>]

\* serializer.is_valid()
IsValid(data) == DOMAIN SerializerErrors(data) = {}

\* SendResult without the copy of "id" into "message_id"
SendResult_NoIdCopy(sent) ==
    IF sent.isdict
    THEN [k \in {"ok"} \cup DOMAIN sent.dict |->
            IF k = "ok" THEN TRUE ELSE sent.dict[k]]
    ELSE [ok |-> TRUE, result |-> sent.raw]

\* the response body built from what send_message returned
SendResult(sent) ==
    IF sent.isdict
    THEN LET d == sent.dict
             r1 == IF "id" \in DOMAIN d
                   THEN [ok |-> TRUE, message_id |-> d["id"]]
                   ELSE [ok |-> TRUE]
         IN [k \in DOMAIN r1 \cup DOMAIN d |->
                IF k \in DOMAIN r1 THEN r1[k] ELSE d[k]]
    ELSE [ok |-> TRUE, result |-> sent.raw]

\* the delegate calls send_view makes
SendCalls(data) ==
    IF IsValid(data)
    THEN <<[op |-> "send_message", to |-> data.fields["to"],
            subject |-> data.fields["subject"], body |-> data.fields["body"]]>>
    ELSE <<>>

\* send_view(request): the response, given what send_message does
send_view(data, send) ==
    IF ~IsValid(data) THEN Response(SerializerErrors(data), HTTP_400)
    ELSE IF send.raised THEN ErrorResponse(send.value, HTTP_500)
    ELSE Response(SendResult(send.value), HTTP_200)

----------------------------------------------------------------------------
(* Backend: list_view and summary_view *)

\* int(request.GET.get("limit", default)), default on any failure
ParseLimit(GET, default) ==
    IF "limit" \notin DOMAIN GET THEN IntText(default)
    ELSE IF IsIntText(GET["limit"]) THEN IntOf(GET["limit"])
    ELSE IntText(default)

\* one entry of list_view's simplified list
Simplified(m) ==
    [id |-> Get(m, "id"),
     threadId |-> Get(m, "threadId"),
     from |-> Or(Or(Get(m, "from"), Get(m, "sender")), Get(m, "emailFrom")),
     to |-> Get(m, "to"),
     subject |-> Or(Or(Get(m, "subject"), Get(m, "title")), Get(m, "header_subject")),
     snippet |-> GetText(m, "snippet"),
     time |-> OrText(OrText(GetText(m, "time"), GetText(m, "date")),
                     GetText(m, "internalDate")),
     body |-> Take(OrText(GetText(m, "body"), <<>>), BodyCap)]

ListCalls(GET) ==
    <<[op |-> "list_messages", query |-> Get(GET, "q"),
       max_results |-> ParseLimit(GET, DefaultListLimit)]>>

\* list_view(request): the response, given what list_messages does
list_view(GET, listed) ==
    IF listed.raised THEN ErrorResponse(listed.value, HTTP_500)
    ELSE Response([i \in 1..Len(listed.value) |-> Simplified(listed.value[i])],
                  HTTP_200)

\* getattr(settings, name, None)
Setting(s, name) == IF name \in DOMAIN s THEN s[name] ELSE None

\* the snippets summary_view takes from the listed messages
Snippets(msgs) ==
    [i \in 1..Len(msgs) |->
        OrText(OrText(GetText(msgs[i], "body"), GetText(msgs[i], "snippet")), <<>>)]

\* the text summary_view takes from the completion: the first choice's content,
\* stripped, or str(resp) when the response has another structure
SummaryText(resp) ==
    IF resp.wellformed THEN Strip(resp.content) ELSE <<"<str(resp)>">>

\* the model name: settings.OPENAI_MODEL, "gpt-3.5-turbo" when it is not set
ModelName(s) == IF "OPENAI_MODEL" \in DOMAIN s THEN s["OPENAI_MODEL"] ELSE "gpt-3.5-turbo"

\* HasCredential with "is not None" in place of truthiness
HasCredential_IsNotNone(s) == Setting(s, "OPENAI_API_KEY") # None

\* TRUE when the summarization credential is configured:
\* getattr(settings, "OPENAI_API_KEY", None) is truthy
HasCredential(s) == Truthy(Setting(s, "OPENAI_API_KEY"))

\* the delegate calls summary_view makes
SummaryCalls(GET, s, listed) ==
    <<[op |-> "list_messages", query |-> None,
       max_results |-> ParseLimit(GET, DefaultSummaryLimit)]>>
    \o (IF ~listed.raised /\ HasCredential(s)
        THEN <<[op |-> "ChatCompletion.create", model |-> ModelName(s),
                snippets |-> Snippets(listed.value), max_tokens |-> 400]>>
        ELSE <<>>)

\* summary_view(request): the response, given the settings and what
\* list_messages and the completion API do
summary_view(GET, s, listed, completion) ==
    IF listed.raised THEN ErrorResponse(listed.value, HTTP_500)
    ELSE IF ~HasCredential(s)
    THEN Response([snippets |-> Snippets(listed.value), summary |-> NoneText,
                   warning |-> "OPENAI_API_KEY not set in settings."], HTTP_200)
    ELSE IF completion.raised THEN ErrorResponse(completion.value, HTTP_500)
    ELSE Response([snippets |-> Snippets(listed.value),
                   summary |-> SummaryText(completion.value)], HTTP_200)

----------------------------------------------------------------------------
(* Inputs: the requests and delegate results the model draws from *)

T_rcpt == <<"a","@","b",".","c","o","m">>
T_hi == <<"H","i"," ","t","h","e","r","e">>
\* datetime.now().strftime("%Y-%m-%d %H:%M") when a mail is sent
T_now == <<"2","0","2","5","-","0","9","-","2","5"," ","1","2",":","3","4">>
\* TZ=EST5EDT,M3.2.0,M11.1.0
EasternZone ==
    [std |-> 0 - 300, dst |-> 0 - 240,
     start |-> [month |-> 3, week |-> 2, weekday |-> 0, time |-> 7200],
     end |-> [month |-> 11, week |-> 1, weekday |-> 0, time |-> 7200]]
\* the time zone and clock the chat client runs under: zone is the local time
\* zone of the process (here Eastern, UTC, and TZ=JST-9), now the reading of
\* the clock when a mail is sent
Clocks ==
    [zone : {EasternZone,
             [std |-> 0, dst |-> 0, start |-> EasternZone.start, end |-> EasternZone.end],
             [std |-> 540, dst |-> 540, start |-> EasternZone.start, end |-> EasternZone.end]},
     now : {T_now, <<"2","0","2","5","-","0","9","-","2","6"," ","0","8",":","0","0">>}]
\* the clock of the sessions with several threads
ChatClocks == {[zone |-> EasternZone, now |-> T_now]}

MessageIds == {"m1"}                    \* the messages of the mailbox
LabelNames == {"Work"}                  \* user label names
LabelIds == {"Label_1", "Label_2"}      \* ids the provider gives to user labels
SystemLabels == <<[name |-> "SPAM", id |-> "SPAM"]>>

\* django settings: the summarization credential absent, None, empty or set
SettingsChoices ==
    {[k \in {} |-> None],
     [OPENAI_API_KEY |-> None],
     [OPENAI_API_KEY |-> ""],
     [OPENAI_API_KEY |-> "sk-test"],
     [OPENAI_API_KEY |-> "sk-test", OPENAI_MODEL |-> "gpt-4"]}

\* a request payload: a JSON object with some fields, or another JSON value
JsonObject(f) == [isdict |-> TRUE, fields |-> f]
NotAnObject == [isdict |-> FALSE, fields |-> <<>>]

\* the dicts with exactly the keys ks, the value of key k drawn from values[k]
RECURSIVE DictsOn(_, _)
DictsOn(ks, values) ==
    IF ks = {} THEN {<<>>}
    ELSE LET k == CHOOSE x \in ks : TRUE
         IN {(k :> v) @@ d : v \in values[k], d \in DictsOn(ks \ {k}, values)}

\* the dicts with keys among keyset: any field may be missing
DictsOver(keyset, values) == UNION {DictsOn(ks, values) : ks \in SUBSET keyset}

SendPayloads ==
    {NotAnObject}
    \cup {JsonObject(f) :
            f \in DictsOver(SendFields,
                            [to |-> {<<>>, T_rcpt}, subject |-> {T_hi},
                             body |-> {<<>>, T_hi}])}

\* what send_message can do: raise, return a dict, return something else
SendOutcomes ==
    {Raised("HttpError: send failed")}
    \cup {Returned([isdict |-> TRUE, dict |-> d, raw |-> None]) :
            d \in DictsOver({"id", "message_id", "ok"},
                            [id |-> {"msg-1"}, message_id |-> {"other-1"},
                             ok |-> {FALSE}])}
    \cup {Returned([isdict |-> FALSE, dict |-> <<>>, raw |-> r]) :
            r \in {None, "sent"}}

LimitTexts ==
    {<<"\t","1","_","2","\n">>, <<"1","_","_","2">>,
     <<"-","1","2","3","4","5","6","7","8","9","0">>}
\* the numerals of MaxStrDigits and of MaxStrDigits + 1 digits
LongLimitTexts ==
    {<<"1">> \o [i \in 1..(MaxStrDigits - 1) |-> "0"],
     <<"1">> \o [i \in 1..MaxStrDigits |-> "0"]}

ListQueries ==
    DictsOver({"q", "limit"}, [q |-> {"is:unread"}, limit |-> LimitTexts])
    \cup {[limit |-> t] : t \in LongLimitTexts}
SummaryQueries == DictsOver({"limit"}, [limit |-> LimitTexts])

\* raw messages as list_messages returns them: field presence varies; Msg1
\* has a Date header, Msg2 an internalDate (epoch milliseconds: 2025-09-25
\* 11:33 UTC)
Msg1 ==
    [id |-> "m1", threadId |-> "t1", from |-> "ann@x.org", to |-> "me@x.org",
     subject |-> "Invoice", snippet |-> T_hi,
     date |-> <<"T","h","u",","," ","2","5"," ","S","e","p"," ","2","0","2","5"," ","1","2",":","3","4",":","5","6"," ","+","0","0","0","0">>,
      body |-> T_hi \o T_rcpt]
Msg2 ==
    [id |-> "m2", sender |-> "bob@x.org", title |-> "", snippet |-> T_rcpt,
     internalDate |-> <<"1","7","5","8","8","0","0","0","0","0","0","0","0">>,
     body |-> <<>>]
\* a message of the winter: 2025-01-15 12:00 UTC
Msg3 ==
    [id |-> "m3", sender |-> "bob@x.org", title |-> "", snippet |-> T_rcpt,
     internalDate |-> <<"1","7","3","6","9","4","2","4","0","0","0","0","0">>,
     body |-> <<>>]

\* what list_messages can do
ListOutcomes ==
    {Raised("HttpError: list failed")}
    \cup {Returned(ms) : ms \in UNION {[1..k -> {Msg1, Msg2}] : k \in 0..MaxListed}}

\* what openai.ChatCompletion.create can do: raise, answer in the usual
\* structure, answer in another structure
CompletionOutcomes ==
    {Raised("OpenAIError"),
     Returned([wellformed |-> TRUE, content |-> <<"\n"," ">> \o T_hi \o <<" ","\n">>]),
     Returned([wellformed |-> FALSE, content |-> <<>>])}

SpamBodies ==
    {NotAnObject}
    \cup {JsonObject(f) :
            f \in DictsOver({"message_id", "action"},
                            [message_id |-> {"", "m1", "gone"},
                             action |-> {"", "mark_spam", "unspam",
                                         "unmark_spam", "delete"}])}

LabelBodies ==
    {NotAnObject}
    \cup {JsonObject(f) :
            f \in DictsOver({"message_id", "label"},
                            [message_id |-> {"", "m1", "gone"},
                             label |-> {""} \cup LabelNames \cup {"SPAM"}])}

----------------------------------------------------------------------------
(* Mail provider: labels (gmail_client) *)

\* modify_message_labels(message_id, add_labels, remove_labels) on the mailbox
ModifyEffect(ml, call) ==
    [ml EXCEPT ![call.message_id] = (@ \cup call.add) \ call.remove]

\* what modify_message_labels can do: raise and change nothing, or, for a
\* message of the mailbox, change its labels and return the message
ModifyOutcomes(ml, call) ==
    {Raised("HttpError: modify failed")}
    \cup (IF call.message_id \in DOMAIN ml
          THEN {Returned([id |-> call.message_id,
                          labelIds |-> ModifyEffect(ml, call)[call.message_id]])}
          ELSE {})

\* create_label(name) on the mailbox, the provider giving the label the id lid
CreateEffect(ls, name, lid) == Append(ls, [name |-> name, id |-> lid])

\* what create_label can do: raise and change nothing, or add the label under
\* an id that is not in use and return it
CreateOutcomes(ls, name) ==
    {Raised("HttpError: create failed")}
    \cup {Returned([id |-> lid, name |-> name]) :
            lid \in LabelIds \ {ls[i].id : i \in DOMAIN ls}}

\* what list_labels can do: raise, or return the mailbox's labels
ListLabelsOutcomes(ls) == {Raised("HttpError: list failed"), Returned(ls)}

\* what get_credentials can do
CredentialOutcomes == {Raised("RefreshError"), Returned("creds")}

\* what a request's delegate calls changed in the mailbox: the labels they
\* added and the messages whose labels they changed
NoChange == [labels |-> {}, messages |-> {}]
MailboxChange(c, ls, ml, ls2, ml2) ==
    [labels |-> c.labels \cup ({ls2[i] : i \in DOMAIN ls2} \ {ls[i] : i \in DOMAIN ls}),
     messages |-> c.messages \cup {k \in DOMAIN ml : ml2[k] # ml[k]}]

----------------------------------------------------------------------------
(* Backend: start_auth, oauth2callback *)

\* start_auth(request): the response, given what get_credentials does
start_auth(creds) ==
    IF creds.raised THEN ErrorResponse(creds.value, HTTP_500)
    ELSE Response([status |-> "ok", message |-> "Credentials obtained/stored."],
                  HTTP_200)

\* oauth2callback(request)
oauth2callback ==
    Response([status |-> "ok",
              message |-> "OAuth callback received (implement as needed)."],
             HTTP_200)

----------------------------------------------------------------------------
(* Backend: manage_spam *)

\* the delegate calls manage_spam makes
SpamCalls(body) ==
    IF ~body.isdict THEN <<>>
    ELSE LET message_id == Get(body.fields, "message_id")
             action == Get(body.fields, "action")
         IN IF ~Truthy(message_id) \/ ~Truthy(action) THEN <<>>
            ELSE IF action = "mark_spam"
            THEN <<[op |-> "modify_message_labels", message_id |-> message_id,
                    add |-> {"SPAM"}, remove |-> {}]>>
            ELSE IF action \in {"unspam", "unmark_spam"}
            THEN <<[op |-> "modify_message_labels", message_id |-> message_id,
                    add |-> {}, remove |-> {"SPAM"}]>>
            ELSE <<>>

\* manage_spam(request): the response, given what modify_message_labels does
manage_spam(body, modify) ==
    IF ~body.isdict THEN Uncaught("AttributeError: no attribute 'get'")
    ELSE LET message_id == Get(body.fields, "message_id")
             action == Get(body.fields, "action")
         IN IF ~Truthy(message_id) \/ ~Truthy(action)
            THEN ErrorResponse("message_id and action required", HTTP_400)
            ELSE IF action \in {"mark_spam", "unspam", "unmark_spam"}
            THEN IF modify.raised THEN ErrorResponse(modify.value, HTTP_500)
                 ELSE Response([ok |-> TRUE, result |-> modify.value], HTTP_200)
            ELSE ErrorResponse("unknown action", HTTP_400)

----------------------------------------------------------------------------
(* Backend: organize_labels *)

\* label_map = {lab["name"]: lab["id"] for lab in labels}: of two labels
\* with one name the later one stays
LabelMap(listed) ==
    [n \in {listed[i].name : i \in DOMAIN listed} |->
        listed[CHOOSE i \in DOMAIN listed :
                    /\ listed[i].name = n
                    /\ \A j \in DOMAIN listed : listed[j].name = n => j <= i].id]

\* TRUE when organize_labels gets past its required-field check
LabelsRequestOk(body) ==
    /\ body.isdict
    /\ Truthy(Get(body.fields, "message_id"))
    /\ Truthy(Get(body.fields, "label"))

\* MustCreate without the look-up in label_map
MustCreate_Always(body, listed) == ~listed.raised

\* TRUE when organize_labels has to create the label
MustCreate(body, listed) ==
    /\ ~listed.raised
    /\ body.fields["label"] \notin DOMAIN LabelMap(listed.value)

\* ResolvedLabelId with the label's name passed on in place of its id
ResolvedLabelId_Name(body, listed, created) == body.fields["label"]

\* label_id, once the label is resolved
ResolvedLabelId(body, listed, created) ==
    IF MustCreate(body, listed) THEN Get(created.value, "id")
    ELSE LabelMap(listed.value)[body.fields["label"]]

\* the delegate calls organize_labels makes: the next one is made only when
\* the one before it returned
LabelsCalls(body, listed, created) ==
    IF ~LabelsRequestOk(body) THEN <<>>
    ELSE <<[op |-> "list_labels"]>>
         \o (IF MustCreate(body, listed)
             THEN <<[op |-> "create_label", name |-> body.fields["label"]]>>
             ELSE <<>>)
         \o (IF listed.raised \/ (MustCreate(body, listed) /\ created.raised)
             THEN <<>>
             ELSE <<[op |-> "modify_message_labels",
                     message_id |-> body.fields["message_id"],
                     add |-> {ResolvedLabelId(body, listed, created)},
                     remove |-> {}]>>)

\* organize_labels(request): the response, given what the delegates do
organize_labels(body, listed, created, modify) ==
    IF ~body.isdict THEN Uncaught("AttributeError: no attribute 'get'")
    ELSE IF ~LabelsRequestOk(body)
    THEN ErrorResponse("message_id and label required", HTTP_400)
    ELSE IF listed.raised THEN ErrorResponse(listed.value, HTTP_500)
    ELSE IF MustCreate(body, listed) /\ created.raised
    THEN ErrorResponse(created.value, HTTP_500)
    ELSE IF modify.raised THEN ErrorResponse(modify.value, HTTP_500)
    ELSE Response([ok |-> TRUE, result |-> modify.value], HTTP_200)

----------------------------------------------------------------------------
(* Chat client: threads *)

\* f"Chat {n}"
ChatName(n) == <<"Chat", n>>

User(content) == [role |-> "user", content |-> content]
Assistant(content) == [role |-> "assistant", content |-> content]

----------------------------------------------------------------------------
(* Chat client: API helpers *)

\* what a helper returns: a JSON list or a JSON object
JsonList(v) == [isdict |-> FALSE, value |-> v]
JsonDict(v) == [isdict |-> TRUE, value |-> v]

\* the HTTP round trip did not produce a response (connection refused, timeout)
NoResponse == [kind |-> "exception", status |-> 0, body |-> "ConnectionError"]

\* requests + raise_for_status() + resp.json(), inside try/except:
\* {"error": str(e)} unless the backend answered with a success status
HelperResult(resp, aslist) ==
    IF resp.kind = "exception" /\ resp.status = 0
    THEN JsonDict([error |-> resp.body])
    ELSE IF resp.kind = "exception" \/ resp.status >= HTTP_400
    THEN JsonDict([error |-> "HTTPError"])
    ELSE IF aslist THEN JsonList(resp.body) ELSE JsonDict(resp.body)

\* list_emails(limit): the backend's answer to GET list/?limit=
list_emails(limit, resp) == HelperResult(resp, TRUE)
\* summarize_emails(limit)
summarize_emails(limit, resp) == HelperResult(resp, FALSE)
\* send_email(to, subject, body)
send_email(payload, resp) == HelperResult(resp, FALSE)

\* "error" in data
HasError(data) == data.isdict /\ "error" \in DOMAIN data.value

----------------------------------------------------------------------------
(* Chat client: format_time *)

\* the tables of email.utils.parsedate_to_datetime
MonthNames ==
    <<<<"j","a","n">>,
      <<"f","e","b">>,
      <<"m","a","r">>,
      <<"a","p","r">>,
      <<"m","a","y">>,
      <<"j","u","n">>,
      <<"j","u","l">>,
      <<"a","u","g">>,
      <<"s","e","p">>,
      <<"o","c","t">>,
      <<"n","o","v">>,
      <<"d","e","c">>,
      <<"j","a","n","u","a","r","y">>,
      <<"f","e","b","r","u","a","r","y">>,
      <<"m","a","r","c","h">>,
      <<"a","p","r","i","l">>,
      <<"m","a","y">>,
      <<"j","u","n","e">>,
      <<"j","u","l","y">>,
      <<"a","u","g","u","s","t">>,
      <<"s","e","p","t","e","m","b","e","r">>,
      <<"o","c","t","o","b","e","r">>,
      <<"n","o","v","e","m","b","e","r">>,
      <<"d","e","c","e","m","b","e","r">>>>
DayNames ==
    {<<"m","o","n">>, <<"t","u","e">>, <<"w","e","d">>, <<"t","h","u">>, <<"f","r","i">>, <<"s","a","t">>, <<"s","u","n">>}
\* zone name, and its offset as hours * 100 + minutes
TimezoneTable ==
    {<<<<"U","T">>, <<"0">>>>,
     <<<<"U","T","C">>, <<"0">>>>,
     <<<<"G","M","T">>, <<"0">>>>,
     <<<<"Z">>, <<"0">>>>,
     <<<<"A","S","T">>, <<"-","4","0","0">>>>,
     <<<<"A","D","T">>, <<"-","3","0","0">>>>,
     <<<<"E","S","T">>, <<"-","5","0","0">>>>,
     <<<<"E","D","T">>, <<"-","4","0","0">>>>,
     <<<<"C","S","T">>, <<"-","6","0","0">>>>,
     <<<<"C","D","T">>, <<"-","5","0","0">>>>,
     <<<<"M","S","T">>, <<"-","7","0","0">>>>,
     <<<<"M","D","T">>, <<"-","6","0","0">>>>,
     <<<<"P","S","T">>, <<"-","8","0","0">>>>,
     <<<<"P","D","T">>, <<"-","7","0","0">>>>}

IsMonthName(w) == \E i \in 1..Len(MonthNames) : MonthNames[i] = w
\* _monthnames.index(w) + 1, folded onto 1..12
MonthNumber(w) ==
    LET i == CHOOSE k \in 1..Len(MonthNames) :
                /\ MonthNames[k] = w
                /\ \A j \in 1..Len(MonthNames) : MonthNames[j] = w => k <= j
    IN IF i > 12 THEN i - 12 ELSE i

\* w without a trailing comma
DropComma(w) ==
    IF w # <<>> /\ w[Len(w)] = "," THEN SubSeq(w, 1, Len(w) - 1) ELSE w

\* the words of a date without its day name: the first word dropped when it
\* ends with a comma or is a day name, else cut after its last comma
SkipDayName(w) ==
    IF w = <<>> THEN <<>>
    ELSE IF w[1][Len(w[1])] = "," \/ Lower(w[1]) \in DayNames THEN Tail(w)
    ELSE <<Drop(w[1], RFind(w[1], <<",">>))>> \o Tail(w)

\* an RFC 850 date dd-mm-yy taken apart
SplitDashes(w) ==
    IF Len(w) = 3 /\ Len(Split(w[1], <<"-">>)) = 3
    THEN Split(w[1], <<"-">>) \o Tail(w)
    ELSE w

\* where the zone starts in a time written with it: s.find("+"), or
\* s.find("-") without a "+", 1-based
ZoneStart(s) == IF Find(s, <<"+">>) = 0 THEN Find(s, <<"-">>) ELSE Find(s, <<"+">>)

\* of four words, the zone cut from the time or an empty zone added
SplitZone(w) ==
    IF Len(w) # 4 THEN w
    ELSE IF ZoneStart(w[4]) > 1
    THEN SubSeq(w, 1, 3) \o <<SubSeq(w[4], 1, ZoneStart(w[4]) - 1),
                               Drop(w[4], ZoneStart(w[4]) - 1)>>
    ELSE w \o << <<>> >>

\* the parser's fields <<dd, mm, yy, tm, tz>>, or <<>> when it gives up.
\* day and month change places when the second word is no month name
MonthSecond(w) ==
    IF Len(w) < 5 THEN <<>>
    ELSE IF w[1] = <<>> \/ w[2] = <<>> \/ w[3] = <<>> THEN <<>>
    ELSE IF IsMonthName(Lower(w[2]))
    THEN <<DropComma(w[1]), Lower(w[2]), w[3], w[4], w[5]>>
    ELSE IF IsMonthName(Lower(w[1]))
    THEN <<DropComma(Lower(w[2])), Lower(w[1]), w[3], w[4], w[5]>>
    ELSE <<>>

\* a year with a ":" past its first character changes places with the time
YearThird(f) ==
    IF f = <<>> THEN <<>>
    ELSE IF Find(f[3], <<":">>) > 1
    THEN <<f[1], f[2], DropComma(f[4]), f[3], f[5]>>
    ELSE <<f[1], f[2], DropComma(f[3]), f[4], f[5]>>

\* a year that does not start with a digit changes places with the zone; the
\* time loses a trailing comma and the zone is read in upper case
ZoneLast(f) ==
    IF f = <<>> \/ f[3] = <<>> THEN <<>>
    ELSE IF IsStrDigit(f[3][1])
    THEN <<f[1], f[2], f[3], DropComma(f[4]), Upper(f[5])>>
    ELSE <<f[1], f[2], f[5], DropComma(f[4]), Upper(f[3])>>

\* hours, minutes and seconds; seconds "0" when they are not written, <<>>
\* for another shape
WithSeconds(parts) ==
    IF Len(parts) = 2 THEN parts \o << <<"0">> >>
    ELSE IF Len(parts) = 3 THEN parts
    ELSE <<>>

\* the texts int() converts, <<yy, dd, hours, minutes, seconds>>, then the
\* month and the zone: the time of day is separated by ":" or else by "."
TimeParts(f) ==
    IF f = <<>> THEN <<>>
    ELSE IF Len(Split(f[4], <<":">>)) > 1
    THEN <<f[3], f[1]>> \o WithSeconds(Split(f[4], <<":">>)) \o <<f[2], f[5]>>
    ELSE <<f[3], f[1]>> \o WithSeconds(Split(f[4], <<".">>)) \o <<f[2], f[5]>>

\* calendar
DaysInMonth(y, m) ==
    IF m = 2 THEN (IF (y % 4 = 0 /\ y % 100 # 0) \/ y % 400 = 0 THEN 29 ELSE 28)
    ELSE IF m \in {4, 6, 9, 11} THEN 30 ELSE 31

\* a date and time of day, or the failure to make one
DateTime(y, mo, d, h, mi) ==
    [ok |-> TRUE, year |-> y, month |-> mo, day |-> d, hour |-> h, minute |-> mi]
NoDateTime ==
    [ok |-> FALSE, year |-> 0, month |-> 0, day |-> 0, hour |-> 0, minute |-> 0]

\* the offset the zone stands for, hours * 100 + minutes: by name, else by
\* int(), else none
ZoneOffset(tz) ==
    IF \E p \in TimezoneTable : p[1] = tz
    THEN (CHOOSE p \in TimezoneTable : p[1] = tz)[2]
    ELSE IF IsIntText(tz) THEN IntOf(tz)
    ELSE <<"0">>

\* a year of fewer than three digits is of 1969..2068
FullYear(y) == IF y >= 100 THEN y ELSE IF y > 68 THEN y + 1900 ELSE y + 2000

\* the fields as numbers <<yy, dd, hours, minutes, seconds, month, zone>>,
\* <<>> when int() raises
ParseNumbers(t) ==
    IF Len(t) # 7 THEN <<>>
    ELSE IF \E i \in 1..5 : ~IsIntText(t[i]) THEN <<>>
    ELSE [i \in 1..7 |-> IF i <= 5 THEN IntOf(t[i])
                         ELSE IF i = 6 THEN MonthNumber(t[6])
                         ELSE ZoneOffset(t[7])]

\* the numbers as datetime() and timedelta() take them, the year in full;
\* <<>> when one has more than nine digits, which makes them raise
MachineInts(n) ==
    IF n = <<>> THEN <<>>
    ELSE IF \E i \in {1, 2, 3, 4, 5, 7} : Len(SelectSeq(n[i], IsDigit)) > 9 THEN <<>>
    ELSE LET IntValue(t) == IF t[1] = "-" THEN 0 - DigitsValue(Tail(t))
                            ELSE DigitsValue(t)
         IN [i \in 1..7 |-> IF i = 1 THEN FullYear(IntValue(n[1]))
                            ELSE IF i = 6 THEN n[6]
                            ELSE IntValue(n[i])]

\* datetime(year, month, day, hour, minute, second, tzinfo=timezone(zone)):
\* the zone offset is strictly within a day
MakeDateTime(n) ==
    IF n = <<>> THEN NoDateTime
    ELSE IF /\ n[1] >= 1
            /\ n[1] <= 9999
            /\ n[2] \in 1..DaysInMonth(n[1], n[6])
            /\ n[3] \in 0..23 /\ n[4] \in 0..59 /\ n[5] \in 0..59
            /\ \E a \in {n[7], 0 - n[7]} :
                    /\ a >= 0
                    /\ a < 2400
                    /\ (a \div 100) * 3600 + (a % 100) * 60 < 86400
    THEN DateTime(n[1], n[6], n[2], n[3], n[4])
    ELSE NoDateTime

\* parsedate_to_datetime(raw): the datetime, NoDateTime when it raises.  Each
\* step works on the value of the step before it
ParseDate(raw) ==
    Only({MakeDateTime(n) : n \in
         {MachineInts(v) : v \in
         {ParseNumbers(t) : t \in
         {TimeParts(g) : g \in
         {ZoneLast(f) : f \in
         {YearThird(e) : e \in
         {MonthSecond(d) : d \in
         {SplitZone(c) : c \in
         {SplitDashes(b) : b \in
         {SkipDayName(a) : a \in {SplitWords(raw)}}}}}}}}}}})

\* raw.isdigit()
IsDigitText(s) == s # <<>> /\ \A i \in 1..Len(s) : IsStrDigit(s[i])

\* the quotient and the remainder of the number written by the digits t,
\* divided by d, by long division
RECURSIVE DivMod(_, _)
DivMod(t, d) ==
    IF t = <<>> THEN [q |-> 0, r |-> 0]
    ELSE LET rest == DivMod(SubSeq(t, 1, Len(t) - 1), d)
             n == 10 * rest.r + DigitValue(t[Len(t)])
         IN [q |-> 10 * rest.q + n \div d, r |-> n % d]

\* the date of the day that is z days after 1970-01-01
CivilFromDays(z) ==
    LET n == z + 719468
        era == n \div 146097
        doe == n - era * 146097
        yoe == (doe - doe \div 1460 + doe \div 36524 - doe \div 146096) \div 365
        doy == doe - (365 * yoe + yoe \div 4 - yoe \div 100)
        mp == (5 * doy + 2) \div 153
        m == IF mp < 10 THEN mp + 3 ELSE mp - 9
    IN [year |-> yoe + era * 400 + (IF m <= 2 THEN 1 ELSE 0),
        month |-> m,
        day |-> doy - (153 * mp + 2) \div 5 + 1]

\* the days from 1970-01-01 to the date y-m-d
DaysFromCivil(y, m, d) ==
    LET yy == IF m <= 2 THEN y - 1 ELSE y
        era == yy \div 400
        yoe == yy - era * 400
        mp == IF m > 2 THEN m - 3 ELSE m + 9
        doy == (153 * mp + 2) \div 5 + d - 1
    IN era * 146097 + yoe * 365 + yoe \div 4 - yoe \div 100 + doy - 719468

\* The local time zone of the process, as the TZ variable gives it:
\* std offset dst offset,start/time,end/time.  std and dst are the minutes
\* local time is ahead of UTC; a zone without daylight time has dst = std.
\* A rule Mm.w.d/time is [month, week, weekday, time]: the day is the week-th
\* weekday (0 = Sunday) of the month, the last one for week 5, and time is in
\* seconds of the local time in force before the change

\* the instant <<day, second of the day>> in UTC at which the rule changes the
\* offset in the year y, the offset before the change being the given one
ChangeInstant(y, rule, offset) ==
    LET first == DaysFromCivil(y, rule.month, 1)
        d == first + ((rule.weekday - ((first + 4) % 7) + 7) % 7) + 7 * (rule.week - 1)
        day == IF d > first + DaysInMonth(y, rule.month) - 1 THEN d - 7 ELSE d
        seconds == rule.time - offset * 60
    IN <<day + (seconds \div 86400), seconds % 86400>>

\* the minutes local time is ahead of UTC at the instant t: localtime() applies
\* the rules of the year the instant has in UTC
UtcOffset(zone, t) ==
    LET Before(a, b) == a[1] < b[1] \/ (a[1] = b[1] /\ a[2] < b[2]) IN
    IF zone.dst = zone.std THEN zone.std
    ELSE Only({IF Before(s, e)
               THEN (IF ~Before(t, s) /\ Before(t, e) THEN zone.dst ELSE zone.std)
               ELSE (IF ~Before(t, e) /\ Before(t, s) THEN zone.std ELSE zone.dst) :
                    s \in {ChangeInstant(CivilFromDays(t[1]).year, zone.start, zone.std)},
                    e \in {ChangeInstant(CivilFromDays(t[1]).year, zone.end, zone.dst)}})

\* datetime.fromtimestamp(int(raw) / 1000), where raw.isdigit(): the local
\* time of the instant; NoDateTime when int() or fromtimestamp raises
LocalTime(raw, zone) ==
    LET ms == Significant(raw)
        secs == SubSeq(ms, 1, Len(ms) - 3)
    IN IF \E i \in 1..Len(raw) : ~IsDigit(raw[i]) THEN NoDateTime
       ELSE IF Len(raw) > MaxStrDigits THEN NoDateTime
       ELSE IF Len(secs) > 12 THEN NoDateTime
       ELSE Only({IF date.year > 9999 THEN NoDateTime
                  ELSE DateTime(date.year, date.month, date.day,
                                (minutes % 1440) \div 60, minutes % 60) :
                    <<minutes, date>> \in
                        {<<(t[2] \div 60) + offset,
                           CivilFromDays(t[1] + (((t[2] \div 60) + offset) \div 1440))>> :
                            <<t, offset>> \in
                                {<<u, UtcOffset(zone, u)>> :
                                    u \in {<<days.q, days.r>> :
                                            days \in {DivMod(secs, 86400)}}}}})

Pad2(n) == IF n < 10 THEN <<"0">> \o IntText(n) ELSE IntText(n)
\* dt.strftime("%Y-%m-%d %H:%M")
Strftime(dt) ==
    IntText(dt.year) \o <<"-">> \o Pad2(dt.month) \o <<"-">> \o Pad2(dt.day)
        \o <<" ">> \o Pad2(dt.hour) \o <<":">> \o Pad2(dt.minute)

\* format_time(raw_time) of a text or None, in a process whose local time
\* zone is zone
FormatTime(raw, zone) ==
    IF ~TruthyText(raw) THEN <<>>
    ELSE Only({IF parsed.ok THEN Strftime(parsed)
               ELSE IF IsDigitText(raw) /\ local.ok THEN Strftime(local)
               ELSE raw :
                    parsed \in {ParseDate(raw)},
                    local \in {LocalTime(raw, zone)}})

----------------------------------------------------------------------------
(* Chat client: intent classification and the send extractor *)

PHRASE == <<"s","e","n","d"," ","a","n"," ","e","m","a","i","l"," ","t","o">>
SAYING == <<"s","a","y","i","n","g">>
KW_LIST == <<"l","i","s","t">>
KW_EMAIL == <<"e","m","a","i","l">>
KW_SUMMARIZE == <<"s","u","m","m","a","r","i","z","e">>
HELLO == <<"H","e","l","l","o","!">>
UNKNOWN_RCPT == <<"u","n","k","n","o","w","n","@","e","x","a","m","p","l","e",".","c","o","m">>
NO_SUBJECT == <<"N","o"," ","s","u","b","j","e","c","t">>

\* p = prompt.lower().strip()
Normalized(prompt) == Strip(Lower(prompt))

\* Intent with the summarize test ahead of the list test
Intent_SummarizeFirst(prompt) ==
    LET p == Normalized(prompt)
    IN IF Contains(p, KW_SUMMARIZE) THEN "SUMMARIZE"
       ELSE IF Contains(p, KW_LIST) /\ Contains(p, KW_EMAIL) THEN "LIST_EMAILS"
       ELSE IF Contains(p, PHRASE) THEN "SEND_EMAIL"
       ELSE "UNKNOWN"

\* the branch the if/elif chain takes
Intent(prompt) ==
    LET p == Normalized(prompt)
    IN IF Contains(p, KW_LIST) /\ Contains(p, KW_EMAIL) THEN "LIST_EMAILS"
       ELSE IF Contains(p, KW_SUMMARIZE) THEN "SUMMARIZE"
       ELSE IF Contains(p, PHRASE) THEN "SEND_EMAIL"
       ELSE "UNKNOWN"

\* the try block of the send branch; the bare except gives the placeholders
\* when prompt.split("send an email to")[1] raises IndexError
Extract(prompt) ==
    LET pieces == Split(prompt, PHRASE)
    IN IF Len(pieces) < 2
       THEN [recipient |-> UNKNOWN_RCPT, body |-> HELLO]
       ELSE LET parts == Split(Strip(pieces[2]), SAYING)
            IN [recipient |-> Strip(parts[1]),
                body |-> IF Len(parts) > 1 THEN Strip(parts[2]) ELSE HELLO]

\* subject = body[:30] or "No subject"
Subject(body) == IF Take(body, SubjectCap) # <<>> THEN Take(body, SubjectCap) ELSE NO_SUBJECT

\* the payload of send_email(recipient, subject, body)
SendPayload(prompt) ==
    LET extracted == Extract(prompt)
    IN JsonObject([to |-> extracted.recipient,
                   subject |-> Subject(extracted.body),
                   body |-> extracted.body])

\* the backend calls of the chat handler, in order
ApiCalls(prompt) ==
    LET intent == Intent(prompt)
    IN CASE intent = "LIST_EMAILS" ->
               <<[op |-> "list_emails", args |-> [limit |-> IntText(ChatListLimit)]]>>
         [] intent = "SUMMARIZE" ->
               <<[op |-> "summarize_emails",
                  args |-> [limit |-> IntText(ChatSummaryLimit)]]>>
         [] intent = "SEND_EMAIL" ->
               <<[op |-> "send_email", args |-> SendPayload(prompt).fields]>>
         [] OTHER -> <<>>

----------------------------------------------------------------------------
(* Chat client: replies *)

\* one numbered entry of the list reply
ListEntry(i, e, zone) ==
    [n |-> i,
     subject |-> IF "subject" \in DOMAIN e THEN e["subject"] ELSE "(No subject)",
     from |-> Get(e, "from"),
     time |-> FormatTime(GetText(e, "time"), zone),
     body |-> GetText(e, "body")]

\* the reply of each branch, given the helper's data; the reply of the
\* summarize branch is "<TypeError>" when str + None raises
Reply(prompt, data, clock) ==
    LET intent == Intent(prompt)
        extracted == Extract(prompt)
    IN CASE intent = "LIST_EMAILS" ->
               IF HasError(data)
               THEN [kind |-> "list_failed", error |-> data.value["error"]]
               ELSE [kind |-> "latest_emails",
                     entries |-> [i \in 1..Len(data.value) |->
                                    ListEntry(i, data.value[i], clock.zone)]]
         [] intent = "SUMMARIZE" ->
               IF HasError(data)
               THEN [kind |-> "summary_failed", error |-> data.value["error"]]
               ELSE LET text == IF "summary" \in DOMAIN data.value
                                THEN data.value["summary"] ELSE <<"<str(data)>">>
                    IN IF text = NoneText THEN [kind |-> "<TypeError>"]
                       ELSE [kind |-> "inbox_summary", summary |-> text]
         [] intent = "SEND_EMAIL" ->
               IF HasError(data)
               THEN [kind |-> "send_failed", error |-> data.value["error"]]
               ELSE [kind |-> "email_sent", to |-> extracted.recipient,
                     subject |-> Subject(extracted.body),
                     body |-> extracted.body,
                     time |-> clock.now]
         [] OTHER -> [kind |-> "help"]

\* TRUE when building the reply raises
Raises(reply) == reply.kind = "<TypeError>"

\* The script run that handles a chat input stands, after the append of the
\* user message (line 92), before the call of its branch ("dispatch"), in the
\* HTTP round trip of that call ("calling"), or, the reply built, in the
\* typing pause of lines 143-144 ("typing").  A script run with no chat input
\* to handle (the rerun of line 147, 160 or 170, or the run of a radio choice)
\* stands, the sidebar's widgets passed, before the inbox load of lines
\* 172-174 ("inbox").  No run is going on at "idle".
\* run is [stage, prompt, reply]: the prompt handled and the reply built
NoRun == [stage |-> "idle", prompt |-> <<>>, reply |-> [kind |-> "none"]]

----------------------------------------------------------------------------
(* Backend: one action per request served *)

\* the outcome of a delegate that is called only when needed
IfCalled(needed, possible) == IF needed THEN possible ELSE {NotCalled}

\* Django serves each request in a thread of its own.  A handler that makes
\* one delegate call touches the mailbox at that call only, so its request is
\* one step, taken when the provider serves the call.  summary_view makes two
\* calls, neither of which reads or writes the mailbox's labels.
\* organize_labels makes up to three calls on the labels and waits for the
\* provider at each: every call is a step, and the steps of several requests
\* interleave.

\* GET /gmail/auth/start/
StartAuth ==
    \E creds \in CredentialOutcomes :
        /\ handler' = "start_auth"
        /\ request' = <<>>
        /\ outcomes' = [get_credentials |-> creds]
        /\ calls' = <<[op |-> "get_credentials"]>>
        /\ response' = start_auth(creds)
        /\ changed' = NoChange
        /\ UNCHANGED <<labels, msg_labels, settings, inflight, chat_vars>>

\* GET /gmail/oauth2callback/
Oauth2Callback ==
    /\ handler' = "oauth2callback"
    /\ request' = <<>>
    /\ outcomes' = <<>>
    /\ calls' = <<>>
    /\ response' = oauth2callback
    /\ changed' = NoChange
    /\ UNCHANGED <<labels, msg_labels, settings, inflight, chat_vars>>

\* POST /gmail/send/
SendView ==
    \E data \in SendPayloads :
    \E send \in IfCalled(IsValid(data), SendOutcomes) :
        /\ handler' = "send_view"
        /\ request' = data
        /\ outcomes' = [send_message |-> send]
        /\ calls' = SendCalls(data)
        /\ response' = send_view(data, send)
        /\ changed' = NoChange
        /\ UNCHANGED <<labels, msg_labels, settings, inflight, chat_vars>>

\* GET /gmail/list/
ListView ==
    \E GET \in ListQueries :
    \E cs \in {ListCalls(GET)} :
    \E listed \in ListOutcomes :
        /\ handler' = "list_view"
        /\ request' = GET
        /\ outcomes' = [list_messages |-> listed]
        /\ calls' = cs
        /\ response' = list_view(GET, listed)
        /\ changed' = NoChange
        /\ UNCHANGED <<labels, msg_labels, settings, inflight, chat_vars>>

\* GET /gmail/summary/
SummaryView ==
    \E GET \in SummaryQueries :
    \E listed \in ListOutcomes :
    \E completion \in IfCalled(Len(SummaryCalls(GET, settings, listed)) = 2,
                               CompletionOutcomes) :
        /\ handler' = "summary_view"
        /\ request' = GET
        /\ outcomes' = [list_messages |-> listed, completion |-> completion]
        /\ calls' = SummaryCalls(GET, settings, listed)
        /\ response' = summary_view(GET, settings, listed, completion)
        /\ changed' = NoChange
        /\ UNCHANGED <<labels, msg_labels, settings, inflight, chat_vars>>

\* POST /gmail/spam/
ManageSpam ==
    \E body \in SpamBodies :
    LET cs == SpamCalls(body) IN
    \E modify \in IfCalled(cs # <<>>,
                           IF cs # <<>> THEN ModifyOutcomes(msg_labels, cs[1]) ELSE {}) :
        /\ handler' = "manage_spam"
        /\ request' = body
        /\ outcomes' = [modify_message_labels |-> modify]
        /\ calls' = cs
        /\ response' = manage_spam(body, modify)
        /\ msg_labels' = IF cs # <<>> /\ ~modify.raised
                         THEN ModifyEffect(msg_labels, cs[1]) ELSE msg_labels
        /\ changed' = MailboxChange(NoChange, labels, msg_labels, labels, msg_labels')
        /\ UNCHANGED <<labels, settings, inflight, chat_vars>>

\* inflight holds, for each organize_labels request between two of its
\* delegate calls, [body, listed, created, changed]: its payload, what
\* list_labels returned to it, the results of its create_label calls (one or
\* none), and what its calls changed so far

\* the request ends: its response goes out
LabelsDone(body, listed, created, modify, change) ==
    /\ handler' = "organize_labels"
    /\ request' = body
    /\ outcomes' = [list_labels |-> listed, create_label |-> created,
                    modify_message_labels |-> modify]
    /\ calls' = LabelsCalls(body, listed, created)
    /\ response' = organize_labels(body, listed, created, modify)
    /\ changed' = change

\* POST /gmail/labels/, up to the return of list_labels (lines 233-240): the
\* request ends when the payload is refused or list_labels raises
LabelsList ==
    /\ BagCardinality(inflight) < MaxInFlight
    /\ \E body \in LabelBodies :
       \E listed \in IfCalled(LabelsRequestOk(body), ListLabelsOutcomes(labels)) :
          IF LabelsRequestOk(body) /\ ~listed.raised
          THEN /\ inflight' = inflight (+)
                    SetToBag({[body |-> body, listed |-> listed, created |-> <<>>,
                               changed |-> NoChange]})
               /\ UNCHANGED <<labels, msg_labels, settings, handler, request,
                              outcomes, calls, response, changed, chat_vars>>
          ELSE /\ LabelsDone(body, listed, NotCalled, NotCalled, NoChange)
               /\ UNCHANGED <<labels, msg_labels, settings, inflight, chat_vars>>

\* a waiting request whose label was not listed calls create_label (line
\* 243): the request ends when the call raises
LabelsCreate ==
    \E r \in BagToSet(inflight) :
        /\ r.created = <<>>
        /\ MustCreate(r.body, r.listed)
        /\ \E created \in CreateOutcomes(labels, r.body.fields["label"]) :
            IF created.raised
            THEN /\ LabelsDone(r.body, r.listed, created, NotCalled, r.changed)
                 /\ inflight' = inflight (-) SetToBag({r})
                 /\ UNCHANGED <<labels, msg_labels, settings, chat_vars>>
            ELSE /\ labels' = CreateEffect(labels, r.body.fields["label"],
                                           created.value.id)
                 /\ inflight' = (inflight (-) SetToBag({r})) (+)
                        SetToBag({[r EXCEPT
                                    !.created = <<created>>,
                                    !.changed = MailboxChange(@, labels, msg_labels,
                                                              labels', msg_labels)]})
                 /\ UNCHANGED <<msg_labels, settings, handler, request, outcomes,
                                calls, response, changed, chat_vars>>

\* a waiting request whose label id is resolved calls modify_message_labels
\* (line 247) and ends
LabelsModify ==
    \E r \in BagToSet(inflight) :
        /\ r.created # <<>> \/ ~MustCreate(r.body, r.listed)
        /\ LET created == IF r.created = <<>> THEN NotCalled ELSE r.created[1]
               cs == LabelsCalls(r.body, r.listed, created)
           IN
           \E modify \in ModifyOutcomes(msg_labels, cs[Len(cs)]) :
                /\ msg_labels' = IF modify.raised THEN msg_labels
                                 ELSE ModifyEffect(msg_labels, cs[Len(cs)])
                /\ LabelsDone(r.body, r.listed, created, modify,
                              MailboxChange(r.changed, labels, msg_labels,
                                            labels, msg_labels'))
                /\ inflight' = inflight (-) SetToBag({r})
                /\ UNCHANGED <<labels, settings, chat_vars>>

\* the chat session as the script's first run leaves it: the thread "Chat 1"
\* with the greeting (lines 22-28), and the inbox loaded for the sidebar
\* (lines 172-174)
ChatStart ==
    /\ chats = [n \in {ChatName(1)} |-> <<Assistant([kind |-> "greeting"])>>]
    /\ current_chat = ChatName(1)
    /\ event = "start"
    /\ prompt_in = <<>>
    /\ api_calls = <<[op |-> "list_emails", args |-> [limit |-> IntText(InboxLimit)]]>>
    /\ crashed = FALSE
    /\ run = NoRun

\* the backend before its first request, over a mailbox of one message
InitBackend ==
    /\ labels \in {SystemLabels,
                   SystemLabels \o <<[name |-> "Work", id |-> "Label_1"]>>}
    /\ msg_labels \in [MessageIds -> {{}, {"SPAM"}}]
    /\ settings \in SettingsChoices
    /\ handler = "none"
    /\ request = <<>>
    /\ outcomes = <<>>
    /\ calls = <<>>
    /\ response = Response(<<>>, HTTP_200)
    /\ changed = NoChange
    /\ inflight = EmptyBag
    /\ ChatStart

\* the requests of the handlers that make one step
NextBackend ==
    \/ StartAuth \/ Oauth2Callback \/ SendView \/ ListView \/ SummaryView
    \/ ManageSpam

BackendSpec == InitBackend /\ [][NextBackend]_vars

\* the backend before its first label request
InitLabels ==
    /\ labels \in {SystemLabels,
                   SystemLabels \o <<[name |-> "Work", id |-> "Label_1"]>>}
    /\ msg_labels = [k \in MessageIds |-> {}]
    /\ settings = [k \in {} |-> None]
    /\ handler = "none"
    /\ request = <<>>
    /\ outcomes = <<>>
    /\ calls = <<>>
    /\ response = Response(<<>>, HTTP_200)
    /\ changed = NoChange
    /\ inflight = EmptyBag
    /\ ChatStart

\* organize_labels requests, up to MaxInFlight of them served at a time
NextLabels == LabelsList \/ LabelsCreate \/ LabelsModify

LabelsSpec == InitLabels /\ [][NextLabels]_vars

----------------------------------------------------------------------------
(* Chat client: what the backend can answer to the chat handler *)

\* A request of the chat handler fails either with no response or with an
\* error status; the helpers treat the two alike.  The error status is that
\* of a summary whose completion call raises
ChatListOutcomes == {Returned(<<Msg1, Msg2, Msg3>>)}
ChatCompletionOutcomes ==
    {Raised("OpenAIError"),
     Returned([wellformed |-> TRUE, content |-> <<"\n"," ">> \o T_hi \o <<" ","\n">>])}
ChatSendOutcomes ==
    {Returned([isdict |-> TRUE, dict |-> [id |-> "msg-1"], raw |-> None])}

\* the prompts typed in a session with several threads
ChatPrompts ==
    {KW_LIST \o <<" ">> \o KW_EMAIL,
     KW_SUMMARIZE,
     PHRASE \o <<" ">> \o T_rcpt \o <<" ">> \o SAYING \o <<" ">> \o T_hi,
     T_hi}

\* the fragments utterances are put together from
Fragments ==
    {PHRASE,
     <<"S">> \o Tail(PHRASE),
     <<" ">> \o T_rcpt \o <<" ">>,
     <<"\t">> \o T_rcpt \o <<"\n">>,
     SAYING \o <<" ">> \o T_hi,
     <<"L">> \o Tail(KW_LIST) \o <<" ">>,
     KW_EMAIL,
     KW_SUMMARIZE,
     <<" ","a","n","d"," ","m","o","r","e"," ","w","o","r","d","s"," ","p","a","s","t"," ","t","h","i","r","t","y"," ","c","h","a","r","s">>}

RECURSIVE Concat(_)
Concat(fs) == IF fs = <<>> THEN <<>> ELSE Head(fs) \o Concat(Tail(fs))

\* the utterances of one to MaxFrags fragments
Utterances ==
    {Concat(fs) : fs \in UNION {[1..k -> Fragments] : k \in 1..MaxFrags}}

----------------------------------------------------------------------------
(* Chat client: one action per UI event *)

\* the user messages in the session's threads
TotalPrompts(cs) ==
    Cardinality(UNION {{<<n, i>> : i \in {j \in DOMAIN cs[n] : cs[n][j].role = "user"}} :
                            n \in DOMAIN cs})

\* Streamlit stops a running script at its next st.* command when the user
\* acts on a widget, and starts the run of that event: a run that stands at
\* "dispatch", "calling" or "typing" is then given up, and the reply of line
\* 146 is not appended; a run that stands at "inbox" is given up before its
\* request is sent.
\* api_calls holds the backend calls made since the user's last event, by the
\* run of that event and by the rerun it ends in.

\* st.chat_input returns the prompt: the run appends the user message (lines
\* 91-94)
Submit(prompt) ==
    /\ chats' = [chats EXCEPT ![current_chat] =
                    Append(@, User([kind |-> "text", text |-> prompt]))]
    /\ run' = [stage |-> "dispatch", prompt |-> prompt, reply |-> [kind |-> "none"]]
    /\ event' = "message"
    /\ prompt_in' = prompt
    /\ api_calls' = <<>>
    /\ crashed' = FALSE
    /\ UNCHANGED <<current_chat, backend_vars>>

\* the branch of the intent sends its request to the backend and waits (lines
\* 97-98, 110-111, 127-128)
Call ==
    /\ run.stage = "dispatch"
    /\ Intent(run.prompt) # "UNKNOWN"
    /\ api_calls' = ApiCalls(run.prompt)
    /\ run' = [run EXCEPT !.stage = "calling"]
    /\ UNCHANGED <<chats, current_chat, event, prompt_in, crashed, backend_vars>>

\* the branch builds its reply from the helper's data, and the typing pause
\* starts; when building the reply raises, the run ends here, short of the
\* sidebar
Handle(data, clocks) ==
    \E clock \in clocks :
        LET reply == Reply(run.prompt, data, clock)
        IN /\ run' = IF Raises(reply) THEN NoRun
                      ELSE [stage |-> "typing", prompt |-> run.prompt, reply |-> reply]
           /\ crashed' = Raises(reply)
           /\ UNCHANGED <<chats, current_chat, event, prompt_in, api_calls,
                          backend_vars>>

ListBranch(clocks) ==
    /\ run.stage = "calling"
    /\ Intent(run.prompt) = "LIST_EMAILS"
    /\ \/ Handle(list_emails(ChatListLimit, NoResponse), clocks)
       \/ \E listed \in ChatListOutcomes :
            Handle(list_emails(ChatListLimit,
                               list_view([limit |-> IntText(ChatListLimit)], listed)),
                   clocks)

SummarizeBranch(clocks) ==
    /\ run.stage = "calling"
    /\ Intent(run.prompt) = "SUMMARIZE"
    /\ \/ Handle(summarize_emails(ChatSummaryLimit, NoResponse), clocks)
       \/ \E listed \in ChatListOutcomes :
          \E completion \in ChatCompletionOutcomes :
            Handle(summarize_emails(ChatSummaryLimit,
                                    summary_view([limit |-> IntText(ChatSummaryLimit)],
                                                 settings, listed, completion)),
                   clocks)

SendBranch(clocks) ==
    /\ run.stage = "calling"
    /\ Intent(run.prompt) = "SEND_EMAIL"
    /\ \/ Handle(send_email(SendPayload(run.prompt), NoResponse), clocks)
       \/ \E send \in ChatSendOutcomes :
            Handle(send_email(SendPayload(run.prompt),
                              send_view(SendPayload(run.prompt), send)),
                   clocks)

UnknownBranch(clocks) ==
    /\ run.stage = "dispatch"
    /\ Intent(run.prompt) = "UNKNOWN"
    /\ Handle(JsonDict(<<>>), clocks)

HandlePrompt(clocks) ==
    \/ ListBranch(clocks)
    \/ SummarizeBranch(clocks)
    \/ SendBranch(clocks)
    \/ UnknownBranch(clocks)

\* the typing pause is over: the reply is appended and st.rerun() starts the
\* script again (lines 146-147); with no chat input to handle, the new run
\* goes on to the sidebar
Finish ==
    /\ run.stage = "typing"
    /\ chats' = [chats EXCEPT ![current_chat] = Append(@, Assistant(run.reply))]
    /\ run' = [NoRun EXCEPT !.stage = "inbox"]
    /\ UNCHANGED <<current_chat, event, prompt_in, api_calls, crashed, backend_vars>>

\* the sidebar's inbox (lines 172-182): the run calls list_emails(limit=5) and
\* writes the entries, or the error, to the page; the session state stays as
\* it is, and the run ends
LoadInbox ==
    /\ run.stage = "inbox"
    /\ api_calls' = Append(api_calls,
                           [op |-> "list_emails",
                            args |-> [limit |-> IntText(InboxLimit)]])
    /\ run' = NoRun
    /\ UNCHANGED <<chats, current_chat, event, prompt_in, crashed, backend_vars>>

\* st.chat_input: the user sends a message in the active thread
UserMessage ==
    /\ TotalPrompts(chats) < MaxPrompts
    /\ \E prompt \in ChatPrompts : Submit(prompt)

\* NewChatName without the + 1
NewChatName_NoPlusOne(cs) == ChatName(Cardinality(DOMAIN cs))

\* new_name = f"Chat {len(st.session_state['chats'])+1}"
NewChatName(cs) == ChatName(Cardinality(DOMAIN cs) + 1)

\* the "New Chat" button (lines 154-160): the thread is added and st.rerun()
\* starts the script again
NewChat ==
    /\ Cardinality(DOMAIN chats) < MaxThreads
    /\ chats' = [n \in DOMAIN chats \cup {NewChatName(chats)} |->
                    IF n = NewChatName(chats)
                    THEN <<Assistant([kind |-> "new_chat"])>>
                    ELSE chats[n]]
    /\ current_chat' = NewChatName(chats)
    /\ event' = "new_chat"
    /\ prompt_in' = <<>>
    /\ api_calls' = <<>>
    /\ crashed' = FALSE
    /\ run' = [NoRun EXCEPT !.stage = "inbox"]
    /\ UNCHANGED backend_vars

\* the "Your Chats" radio (lines 162-164): the user picks one of the
\* session's threads, and the run of that event goes on to the sidebar's inbox
SelectChat ==
    \E choice \in DOMAIN chats :
        /\ choice # current_chat
        /\ current_chat' = choice
        /\ event' = "select"
        /\ prompt_in' = <<>>
        /\ api_calls' = <<>>
        /\ crashed' = FALSE
        /\ run' = [NoRun EXCEPT !.stage = "inbox"]
        /\ UNCHANGED <<chats, backend_vars>>

\* the "Clear Chat" button (lines 166-170): the thread is reset and
\* st.rerun() starts the script again
ClearChat ==
    /\ chats' = [chats EXCEPT ![current_chat] = <<Assistant([kind |-> "cleared"])>>]
    /\ event' = "clear"
    /\ prompt_in' = <<>>
    /\ api_calls' = <<>>
    /\ crashed' = FALSE
    /\ run' = [NoRun EXCEPT !.stage = "inbox"]
    /\ UNCHANGED <<current_chat, backend_vars>>

\* a session against a backend with or without the summarization credential
InitChat ==
    /\ labels = SystemLabels
    /\ msg_labels = [m \in MessageIds |-> {}]
    /\ settings \in {[k \in {} |-> None], [OPENAI_API_KEY |-> "sk-test"]}
    /\ handler = "none"
    /\ request = <<>>
    /\ outcomes = <<>>
    /\ calls = <<>>
    /\ response = Response(<<>>, HTTP_200)
    /\ changed = NoChange
    /\ inflight = EmptyBag
    /\ ChatStart

NextChat ==
    \/ UserMessage \/ Call \/ HandlePrompt(ChatClocks) \/ Finish
    \/ NewChat \/ SelectChat \/ ClearChat \/ LoadInbox

ChatSpec == InitChat /\ [][NextChat]_vars

\* the first message of a session, over every utterance and clock, handled
\* with no other event of the user
FirstMessage ==
    /\ event = "start"
    /\ \E prompt \in Utterances : Submit(prompt)

NextClassify ==
    FirstMessage \/ Call \/ HandlePrompt(Clocks) \/ Finish \/ LoadInbox

ClassifySpec == InitChat /\ [][NextClassify]_vars

----------------------------------------------------------------------------
(* Claims about the backend, checked under BackendSpec *)

IsErrorResponse == response.kind = "response" /\ response.status >= HTTP_400
Sent == outcomes.send_message.value

\* C2, as claimed: for a valid send request send_view calls send_message
\* exactly once and, when the call returns, answers ok = true with message_id
\* present exactly when the delegate's result contains "id"
C2_AsClaimed ==
    (handler = "send_view" /\ IsValid(request)) =>
        /\ Len(calls) = 1
        /\ calls[1].op = "send_message"
        /\ ~outcomes.send_message.raised =>
            /\ response.kind = "response"
            /\ response.status = HTTP_200
            /\ response.body["ok"] = TRUE
            /\ "message_id" \in DOMAIN response.body
                <=> (Sent.isdict /\ "id" \in DOMAIN Sent.dict)

\* C2, amended: message_id is present exactly when the delegate's result is a
\* dict containing "id" or containing "message_id" itself, which send_view
\* passes through with the other extra fields
C2_SendNormalized ==
    (handler = "send_view" /\ IsValid(request)) =>
        /\ Len(calls) = 1
        /\ calls[1].op = "send_message"
        /\ ~outcomes.send_message.raised =>
            /\ response.kind = "response"
            /\ response.status = HTTP_200
            /\ response.body["ok"] = TRUE
            /\ "message_id" \in DOMAIN response.body
                <=> (Sent.isdict /\ ({"id", "message_id"} \cap DOMAIN Sent.dict # {}))
            /\ (Sent.isdict /\ "id" \in DOMAIN Sent.dict)
                => response.body["message_id"] = Sent.dict["id"]

\* C2 witness: the delegate returned a dict with "message_id" and without "id",
\* and the response carries message_id
C2_Witness ==
    /\ handler = "send_view"
    /\ IsValid(request)
    /\ ~outcomes.send_message.raised
    /\ Sent.isdict
    /\ "id" \notin DOMAIN Sent.dict
    /\ "message_id" \in DOMAIN Sent.dict
    /\ "message_id" \in DOMAIN response.body

\* C3, as claimed: every handler ends with a response, never with an uncaught
\* exception, and every failure response has the shape {error: string}
C3_AsClaimed ==
    handler # "none" =>
        /\ response.kind = "response"
        /\ response.status >= HTTP_400 => DOMAIN response.body = {"error"}

\* C4: without a summarization credential and with list_messages returning,
\* summary_view answers with summary null and a non-empty warning, and does not
\* call the completion API
C4_NoCredentialNoCompletion ==
    (/\ handler = "summary_view"
     /\ ~Truthy(Setting(settings, "OPENAI_API_KEY"))
     /\ ~outcomes.list_messages.raised) =>
        /\ response.kind = "response"
        /\ response.status = HTTP_200
        /\ response.body["summary"] = NoneText
        /\ "warning" \in DOMAIN response.body
        /\ response.body["warning"] # ""
        /\ \A i \in 1..Len(calls) : calls[i].op # "ChatCompletion.create"

\* C4 witness: the credential is the empty string, the limit does not parse,
\* messages were listed and the summary is null
C4_Witness ==
    /\ handler = "summary_view"
    /\ Setting(settings, "OPENAI_API_KEY") = ""
    /\ "limit" \in DOMAIN request
    /\ ~IsIntText(request["limit"])
    /\ ~outcomes.list_messages.raised
    /\ Len(outcomes.list_messages.value) = MaxListed
    /\ response.body["summary"] = NoneText
    /\ calls[1].max_results = IntText(DefaultSummaryLimit)

SpamKnownActions == {"mark_spam", "unspam", "unmark_spam"}

\* C7, as claimed (BackendSpec): manage_spam makes no
\* modify_message_labels call and answers with a client error whenever
\* message_id or action is missing, whatever the JSON value of the payload, or
\* the action is unknown; for a known action it makes exactly one call,
\* adding "SPAM" for mark_spam and removing "SPAM" for unspam and unmark_spam
C7_AsClaimed ==
    handler = "manage_spam" =>
        LET message_id == Get(request.fields, "message_id")
            action == Get(request.fields, "action")
            missing == message_id \in {None, ""} \/ action \in {None, ""}
        IN /\ (missing \/ action \notin SpamKnownActions) =>
                /\ calls = <<>>
                /\ response.kind = "response"
                /\ response.status = HTTP_400
                /\ DOMAIN response.body = {"error"}
                /\ changed = NoChange
           /\ (~missing /\ action = "mark_spam") =>
                calls = <<[op |-> "modify_message_labels", message_id |-> message_id,
                           add |-> {"SPAM"}, remove |-> {}]>>
           /\ (~missing /\ action \in {"unspam", "unmark_spam"}) =>
                calls = <<[op |-> "modify_message_labels", message_id |-> message_id,
                           add |-> {}, remove |-> {"SPAM"}]>>

NamesOf(ls) == {ls[i].name : i \in DOMAIN ls}
CreateCalled == \E i \in 1..Len(calls) : calls[i].op = "create_label"

\* C8, as claimed: whenever organize_labels returns an error response, the
\* request has changed neither the mailbox's labels nor a message's labels
C8_AsClaimed ==
    (handler = "organize_labels" /\ IsErrorResponse) =>
        /\ changed.labels \cap {labels[i] : i \in DOMAIN labels} = {}
        /\ changed.messages = {}

\* C8, amended: whenever organize_labels returns an error response, the
\* request has changed no message's labels, and the only change it can have
\* made to the mailbox's labels is the requested label, absent from the labels
\* listed to it and created by it before modify_message_labels raised; that
\* label is still in the mailbox
C8_FailedRequestEffect ==
    (handler = "organize_labels" /\ IsErrorResponse) =>
        /\ changed.messages = {}
        /\ \/ changed.labels = {}
           \/ /\ CreateCalled
              /\ ~outcomes.create_label.raised
              /\ outcomes.modify_message_labels.raised
              /\ request.fields["label"] \notin NamesOf(outcomes.list_labels.value)
              /\ changed.labels = {[name |-> request.fields["label"],
                                    id |-> outcomes.create_label.value.id]}
              /\ changed.labels \subseteq {labels[i] : i \in DOMAIN labels}

\* C8 witness: an error response of a request that created a label, the
\* label being in the mailbox
C8_Witness ==
    /\ handler = "organize_labels"
    /\ IsErrorResponse
    /\ changed.labels # {}
    /\ changed.labels \subseteq {labels[i] : i \in DOMAIN labels}

ListLabelsCall == [op |-> "list_labels"]
CreateCall(name) == [op |-> "create_label", name |-> name]
ModifyAddCall(message_id, lid) ==
    [op |-> "modify_message_labels", message_id |-> message_id,
     add |-> {lid}, remove |-> {}]
\* TRUE when the call adds to the message the id of a listed label of that name
AddsListed(call, message_id, listed, name) ==
    \E i \in DOMAIN listed :
        /\ listed[i].name = name
        /\ call = ModifyAddCall(message_id, listed[i].id)

\* C10, as claimed: with message_id and label present, the calls are
\* list_labels, then create_label exactly when the label is absent from the
\* listed labels, then exactly one modify_message_labels adding the resolved
\* id
C10_AsClaimed ==
    (handler = "organize_labels" /\ LabelsRequestOk(request)) =>
        LET name == request.fields["label"]
            message_id == request.fields["message_id"]
            listed == outcomes.list_labels
            created == outcomes.create_label
        IN /\ calls[1] = ListLabelsCall
           /\ ~listed.raised
           /\ IF name \in NamesOf(listed.value)
              THEN /\ Len(calls) = 2
                   /\ AddsListed(calls[2], message_id, listed.value, name)
              ELSE /\ Len(calls) = 3
                   /\ calls[2] = CreateCall(name)
                   /\ ~created.raised
                   /\ calls[3] = ModifyAddCall(message_id, created.value.id)

\* C10, amended: the calls are made in that order, each one only when every
\* call before it returned: nothing follows a list_labels that raised, and no
\* modify_message_labels follows a create_label that raised
C10_CallOrder ==
    (handler = "organize_labels" /\ LabelsRequestOk(request)) =>
        LET name == request.fields["label"]
            message_id == request.fields["message_id"]
            listed == outcomes.list_labels
            created == outcomes.create_label
        IN /\ calls[1] = ListLabelsCall
           /\ listed.raised => Len(calls) = 1
           /\ (~listed.raised /\ name \in NamesOf(listed.value)) =>
                /\ Len(calls) = 2
                /\ AddsListed(calls[2], message_id, listed.value, name)
           /\ (~listed.raised /\ name \notin NamesOf(listed.value)) =>
                /\ calls[2] = CreateCall(name)
                /\ created.raised => Len(calls) = 2
                /\ ~created.raised =>
                        /\ Len(calls) = 3
                        /\ calls[3] = ModifyAddCall(message_id, created.value.id)

\* C10 witness: two requests for a label that was not listed to either were
\* served at the same time; the later one created the label a second time
\* and added its id to the message that already carried the first
C10_Witness ==
    /\ handler = "organize_labels"
    /\ LabelsRequestOk(request)
    /\ Len(calls) = 3
    /\ response.status = HTTP_200
    /\ request.fields["label"] \notin NamesOf(outcomes.list_labels.value)
    /\ request.fields["message_id"] \in changed.messages
    /\ \E i, j \in DOMAIN labels :
            /\ i # j
            /\ labels[i].name = request.fields["label"]
            /\ labels[j].name = request.fields["label"]
            /\ {labels[i].id, labels[j].id} \subseteq msg_labels[request.fields["message_id"]]

----------------------------------------------------------------------------
(* Claims about the chat client *)

UserMessageOf(prompt) == User([kind |-> "text", text |-> prompt])

\* C1, as claimed (ChatSpec): the handling of every user message completes,
\* the active thread being extended by exactly the user message and then one
\* assistant reply, and no thread ever holds a user message that no assistant
\* reply follows, other than the message being handled
C1_AsClaimed ==
    /\ [][(run'.stage = "dispatch" /\ chats' # chats) =>
            /\ run.stage \in {"idle", "inbox"}
            /\ chats' = [chats EXCEPT ![current_chat] =
                            Append(@, UserMessageOf(run'.prompt))]]_vars
    /\ [][(run.stage \in {"dispatch", "calling", "typing"} /\ run' # run) =>
            /\ current_chat' = current_chat
            /\ run'.prompt = run.prompt
            /\ \/ /\ run.stage = "dispatch"
                  /\ run'.stage \in {"calling", "typing"}
                  /\ chats' = chats
               \/ /\ run.stage = "calling"
                  /\ run'.stage = "typing"
                  /\ chats' = chats
               \/ /\ run.stage = "typing"
                  /\ run'.stage = "inbox"
                  /\ run'.prompt = <<>>
                  /\ chats' = [chats EXCEPT ![current_chat] =
                                  Append(@, Assistant(run.reply))]]_vars
    /\ [](\A n \in DOMAIN chats : \A i \in 1..Len(chats[n]) :
            chats[n][i].role = "user" =>
                \/ /\ i < Len(chats[n])
                   /\ chats[n][i + 1].role = "assistant"
                \/ /\ n = current_chat
                   /\ i = Len(chats[n])
                   /\ run.stage \in {"dispatch", "calling", "typing"}
                   /\ chats[n][i] = UserMessageOf(run.prompt))

\* the text after the first "send an email to", whatever its case
ClaimedRest(prompt) ==
    Drop(prompt, Find(Lower(prompt), PHRASE) - 1 + Len(PHRASE))
\* the trimmed text between the phrase and the following "saying"
ClaimedRecipient(prompt) ==
    LET rest == ClaimedRest(prompt)
        j == Find(rest, SAYING)
    IN IF j = 0 THEN Strip(rest) ELSE Strip(SubSeq(rest, 1, j - 1))
\* the trimmed text after "saying", "Hello!" when there is no "saying"
ClaimedBody(prompt) ==
    LET rest == ClaimedRest(prompt)
        j == Find(rest, SAYING)
    IN IF j = 0 THEN HELLO ELSE Strip(Drop(rest, j - 1 + Len(SAYING)))

\* C5, as claimed (ClassifySpec): for every utterance routed to SEND_EMAIL the
\* send call gets the trimmed text between "send an email to" and the
\* following "saying" as recipient and the trimmed text after "saying" (or
\* "Hello!") as body
C5_AsClaimed ==
    (event = "message" /\ Contains(Normalized(prompt_in), PHRASE)
        /\ api_calls # <<>> /\ api_calls[1].op = "send_email") =>
        /\ api_calls[1].args["to"] = ClaimedRecipient(prompt_in)
        /\ api_calls[1].args["body"] = ClaimedBody(prompt_in)

ApiOps == [i \in 1..Len(api_calls) |-> api_calls[i].op]

\* the reply the run has built: appended to the thread, or about to be
BuiltReplyKind ==
    IF run.stage = "typing" THEN run.reply.kind
    ELSE chats[current_chat][Len(chats[current_chat])].content.kind

\* the calls the priority order list-and-email, summarize, "send an email
\* to", unknown gives the handler of the message
ClaimedOps ==
    LET low == Lower(prompt_in)
    IN IF Contains(low, KW_LIST) /\ Contains(low, KW_EMAIL) THEN <<"list_emails">>
       ELSE IF Contains(low, KW_SUMMARIZE) THEN <<"summarize_emails">>
       ELSE IF Contains(low, PHRASE) THEN <<"send_email">>
       ELSE <<>>

\* C6, as claimed (ClassifySpec): every utterance takes exactly one branch, in
\* the order list-and-email, summarize, "send an email to", unknown, and the
\* client's backend calls for the message are exactly the one call of that
\* branch, none for unknown
C6_AsClaimed ==
    event = "message" =>
        ApiOps = (IF run.stage = "dispatch" THEN <<>> ELSE ClaimedOps)

\* C6 (ClassifySpec): every utterance takes exactly one branch, in the order
\* list-and-email, summarize, "send an email to", unknown; the handler makes
\* no backend call before the branch and in the branch exactly the call of
\* that branch, none for unknown, and the reply is one of that branch; the
\* rerun that follows the reply then makes one more call, list_emails(limit=5)
\* for the sidebar's inbox, whatever the branch
C6_IntentPriority ==
    event = "message" =>
        LET replies ==
                CASE ClaimedOps = <<"list_emails">> -> {"latest_emails", "list_failed"}
                  [] ClaimedOps = <<"summarize_emails">> ->
                        {"inbox_summary", "summary_failed"}
                  [] ClaimedOps = <<"send_email">> -> {"email_sent", "send_failed"}
                  [] OTHER -> {"help"}
            replied == run.stage \in {"typing", "inbox"}
                            \/ (run.stage = "idle" /\ ~crashed)
            reran == run.stage = "idle" /\ ~crashed
        IN /\ ApiOps = (IF run.stage = "dispatch" THEN <<>> ELSE ClaimedOps)
                            \o (IF reran THEN <<"list_emails">> ELSE <<>>)
           /\ reran => api_calls[Len(api_calls)].args =
                            [limit |-> IntText(InboxLimit)]
           /\ replied => BuiltReplyKind \in replies

\* C6 witness: an utterance with "list", "email" and "summarize" was handled
\* as a list request with list_emails(limit=3), the list reply is in the
\* thread, and the rerun has loaded the inbox with list_emails(limit=5)
C6_Witness ==
    /\ event = "message"
    /\ Contains(Lower(prompt_in), KW_LIST)
    /\ Contains(Lower(prompt_in), KW_EMAIL)
    /\ Contains(Lower(prompt_in), KW_SUMMARIZE)
    /\ run.stage = "idle"
    /\ ApiOps = <<"list_emails", "list_emails">>
    /\ api_calls[1].args = [limit |-> IntText(ChatListLimit)]
    /\ api_calls[2].args = [limit |-> IntText(InboxLimit)]
    /\ BuiltReplyKind = "latest_emails"

\* C9 (ChatSpec): the thread names are "Chat 1" to "Chat n" for the n threads
\* of the session, the active thread is one of them, and New Chat puts its
\* thread under a name that was not in use and leaves every other thread as
\* it was
C9_ThreadNames ==
    /\ [](/\ current_chat \in DOMAIN chats
          /\ DOMAIN chats = {ChatName(i) : i \in 1..Cardinality(DOMAIN chats)})
    /\ [][(event' = "new_chat" /\ chats' # chats) =>
            /\ current_chat' \notin DOMAIN chats
            /\ DOMAIN chats' = DOMAIN chats \cup {current_chat'}
            /\ \A n \in DOMAIN chats : chats'[n] = chats[n]]_vars

\* C9 witness: New Chat ran in a session whose first thread holds an exchange,
\* and that exchange is still there
C9_Witness ==
    /\ event = "new_chat"
    /\ current_chat = ChatName(2)
    /\ Len(chats[ChatName(1)]) = 3
    /\ chats[ChatName(1)][2].role = "user"

====
